---- MODULE Spec2Model ----
(***************************************************************************)
(* Model of the crawling engine of scu-intelligent-spider:                 *)
(*   src/src/crawlers/base_crawler.py      (retrying request executor)     *)
(*   src/src/crawlers/personnel_crawler.py (hierarchical crawl)            *)
(*   src/src/crawlers/news_crawler.py      (flat paginated crawl)          *)
(*   src/src/utils/web_parser.py           (pagination, href, AJAX)        *)
(*   src/src/utils/file_handler.py         (save_lines_to_file)            *)
(*                                                                         *)
(* Python strings are sequences of code points, so that prefix tests,      *)
(* concatenation, case folding and lexicographic order are computed.       *)
(* None is the one-element sequence <<0>>, which no string of the model    *)
(* equals.                                                                 *)
(***************************************************************************)
EXTENDS Integers, Sequences, FiniteSets, TLC

\* ------------------------------------------------------------------ bounds
\* max_retries ranges over 0..MaxRetriesBound
MaxRetriesBound == 1
\* the news max_pages ceiling ranges over 0..MaxPagesBound
MaxPagesBound == 2

\* a WebParser function is applied to lists of up to MaxNodes anchors
MaxNodes == 3

\* ---------------------------------------------------------------- strings
None == <<0>>
EmptyStr == <<>>

\* Python truthiness of an Optional[str]
Truthy(v) == v # None /\ v # EmptyStr

startswith(s, p) == Len(s) >= Len(p) /\ SubSeq(s, 1, Len(p)) = p

endswith(s, p) == Len(s) >= Len(p) /\ SubSeq(s, Len(s) - Len(p) + 1, Len(s)) = p

lower(s) == [i \in 1..Len(s) |-> IF s[i] >= 65 /\ s[i] <= 90 THEN s[i] + 32 ELSE s[i]]

\* smallest index at which p occurs in s, 0 when it does not
find(s, p) ==
    LET hits == {i \in 1..(Len(s) - Len(p) + 1) : SubSeq(s, i, i + Len(p) - 1) = p}
    IN IF hits = {} THEN 0 ELSE CHOOSE i \in hits : \A j \in hits : i <= j

Whitespace == {9, 10, 13, 32}

RECURSIVE lstripChars(_, _)
lstripChars(s, chars) ==
    IF s # <<>> /\ Head(s) \in chars THEN lstripChars(Tail(s), chars) ELSE s

RECURSIVE rstripChars(_, _)
rstripChars(s, chars) ==
    IF s # <<>> /\ s[Len(s)] \in chars THEN rstripChars(SubSeq(s, 1, Len(s) - 1), chars) ELSE s

\* str.strip(chars)
stripChars(s, chars) == rstripChars(lstripChars(s, chars), chars)

\* str.strip()
strip(s) == stripChars(s, Whitespace)

\* str.split(): the maximal runs of non-whitespace
RECURSIVE splitWs(_, _, _)
splitWs(s, cur, acc) ==
    IF s = <<>> THEN (IF cur = <<>> THEN acc ELSE Append(acc, cur))
    ELSE IF Head(s) \in Whitespace
         THEN splitWs(Tail(s), <<>>, IF cur = <<>> THEN acc ELSE Append(acc, cur))
         ELSE splitWs(Tail(s), Append(cur, Head(s)), acc)

\* sep.join(parts)
RECURSIVE join(_, _)
join(sep, parts) ==
    IF parts = <<>> THEN <<>>
    ELSE IF Len(parts) = 1 THEN parts[1]
    ELSE parts[1] \o sep \o join(sep, Tail(parts))

\* str(n) for n >= 0
RECURSIVE str(_)
str(n) == IF n < 10 THEN <<48 + n>> ELSE str(n \div 10) \o <<48 + (n % 10)>>

IsDigit(c) == c >= 48 /\ c <= 57

\* int(digits)
RECURSIVE int(_)
int(d) == IF d = <<>> THEN 0 ELSE 10 * int(SubSeq(d, 1, Len(d) - 1)) + (d[Len(d)] - 48)

\* the maximal run of digits at the start of s
RECURSIVE digitRun(_)
digitRun(s) ==
    IF s # <<>> /\ IsDigit(Head(s)) THEN <<Head(s)>> \o digitRun(Tail(s)) ELSE <<>>

\* strict lexicographic order of code-point sequences (Python str "<")
RECURSIVE LexLess(_, _)
LexLess(a, b) ==
    IF b = <<>> THEN FALSE
    ELSE IF a = <<>> THEN TRUE
    ELSE IF Head(a) < Head(b) THEN TRUE
    ELSE IF Head(a) > Head(b) THEN FALSE
    ELSE LexLess(Tail(a), Tail(b))

\* sorted(lines): insertion sort, stable
RECURSIVE insertSorted(_, _)
insertSorted(x, s) ==
    IF s = <<>> THEN <<x>>
    ELSE IF LexLess(x, Head(s)) THEN <<x>> \o s
    ELSE <<Head(s)>> \o insertSorted(x, Tail(s))

RECURSIVE sorted(_)
sorted(lines) ==
    IF lines = <<>> THEN <<>>
    ELSE insertSorted(lines[Len(lines)], sorted(SubSeq(lines, 1, Len(lines) - 1)))

Range(s) == {s[i] : i \in 1..Len(s)}

RECURSIVE SumSeq(_)
SumSeq(s) == IF s = <<>> THEN 0 ELSE Head(s) + SumSeq(Tail(s))

\* every order in which list(a_set) may enumerate the set
RECURSIVE Orderings(_)
Orderings(S) ==
    IF S = {} THEN {<<>>}
    ELSE UNION {{<<x>> \o p : p \in Orderings(S \ {x})} : x \in S}

\* ------------------------------------------------------------ configuration
\* websites.base_url: "http://s"
base_url == <<104, 116, 116, 112, 58, 47, 47, 115>>
\* websites.news_url + websites.news.category_url: "http://n/c"
news_category_url == <<104, 116, 116, 112, 58, 47, 47, 110, 47, 99>>
\* websites.personnel.menu_url appended to base_url: "http://s/m"
menu_url == base_url \o <<47, 109>>
\* document_types.supported_extensions: ".pdf", ".doc", ".XLS"
doc_extensions == << <<46, 112, 100, 102>>, <<46, 100, 111, 99>>, <<46, 88, 76, 83>> >>
\* crawler.delays.request_delay: the post-success delay is off (0) or on (1)
RequestDelays == {0, 1}

\* ------------------------------------------------------ documents and nodes
\* An anchor element: its text and the attributes the engine reads.
\* request is the data-request attribute, data the data-request-data one.
Anchor(text, href) ==
    [text |-> text, href |-> href, onclick |-> None, request |-> None, data |-> None]

\* "web_listcomponent::onAttachmentDetail", written "onAtt"
onAttachmentDetail == <<111, 110, 65, 116, 116>>

AjaxAnchor(text, data) ==
    [text |-> text, href |-> None, onclick |-> None,
     request |-> onAttachmentDetail, data |-> data]

\* A parsed page, by what each selector of the engine finds in it:
\*   group  = select(".group a"), tbody = select("tbody a"),
\*   rndbox = select("#rndbox_body a"), pager = its other anchors,
\*   paras  = the texts of select("#article_block p")
Doc(group, tbody, rndbox, pager, paras) ==
    [group |-> group, tbody |-> tbody, rndbox |-> rndbox, pager |-> pager, paras |-> paras]

AllAnchors(soup) == soup.group \o soup.tbody \o soup.rndbox \o soup.pager

\* ---------------------------------------------------------- WebParser
sPageQuery == <<63, 112, 97, 103, 101, 61>>
sPageEq == <<112, 97, 103, 101, 61>>
sLocationHref == <<108, 111, 99, 97, 116, 105, 111, 110, 46, 104, 114, 101, 102, 61>>
sHttp == <<104, 116, 116, 112>>
sSlash == <<47>>
sHash == <<35>>

\* re.search(r"[?&]page=(\d+)", href): the digits of the leftmost match, None
\* when the pattern does not match
searchPage(href) ==
    LET hits == {i \in 1..Len(href) :
                    /\ href[i] \in {63, 38}
                    /\ i + 6 <= Len(href)
                    /\ SubSeq(href, i + 1, i + 5) = sPageEq
                    /\ IsDigit(href[i + 6])}
    IN IF hits = {} THEN None
       ELSE LET i == CHOOSE h \in hits : \A j \in hits : h <= j
            IN digitRun(SubSeq(href, i + 6, Len(href)))

\* the page numbers of the anchors selected by a[href*='?page=']
RECURSIVE pageNumbers(_)
pageNumbers(anchors) ==
    IF anchors = <<>> THEN <<>>
    ELSE LET a == Head(anchors)
             rest == pageNumbers(Tail(anchors))
         IN IF Truthy(a.href) /\ find(a.href, sPageQuery) > 0 /\ searchPage(a.href) # None
            THEN <<int(searchPage(a.href))>> \o rest
            ELSE rest

Max(S) == CHOOSE m \in S : \A x \in S : x <= m

get_max_page(soup) ==
    LET pages == pageNumbers(AllAnchors(soup))
    IN IF pages # <<>> THEN Max(Range(pages)) ELSE 1

\* onclick.split("location.href=")[1]
splitSecond(s, sep) ==
    LET i == find(s, sep)
        rest == SubSeq(s, i + Len(sep), Len(s))
        j == find(rest, sep)
    IN IF j = 0 THEN rest ELSE SubSeq(rest, 1, j - 1)

extract_href(node, base) ==
    LET onclick == IF node.onclick = None THEN EmptyStr ELSE node.onclick
        href1 == IF node.href = sHash /\ find(onclick, sLocationHref) > 0
                 THEN stripChars(splitSecond(onclick, sLocationHref), {39, 34, 59, 32})
                 ELSE node.href
    IN IF Truthy(href1) /\ startswith(href1, sSlash) THEN base \o href1 ELSE href1

navigation_texts ==
    { <<50>>, <<187>>, <<171>>, <<8249>>, <<8250>>, <<19979, 19968, 38913>>,
      <<19978, 19968, 38913>>, <<39318, 38913>>, <<26411, 38913>> }

\* fault: the length test is dropped
is_content_link_lax(node) == strip(node.text) \notin navigation_texts

\* the condition of the list comprehension of filter_navigation_links
is_content_link(node) ==
    Len(strip(node.text)) > 3 /\ strip(node.text) \notin navigation_texts

RECURSIVE filter_navigation_links(_)
filter_navigation_links(nodes) ==
    IF nodes = <<>> THEN <<>>
    ELSE LET node == Head(nodes)
             rest == filter_navigation_links(Tail(nodes))
         IN IF is_content_link(node)
            THEN <<node>> \o rest
            ELSE rest

\* str.split(sep) for a one-character separator
RECURSIVE splitOn(_, _, _)
splitOn(s, c, cur) ==
    IF s = <<>> THEN <<cur>>
    ELSE IF Head(s) = c THEN <<cur>> \o splitOn(Tail(s), c, <<>>)
    ELSE splitOn(Tail(s), c, Append(cur, Head(s)))

\* dict(part.split(":") for part in data_str.split(",")) raises unless every
\* part splits into exactly two pieces
payloadParses(data_str) ==
    \A part \in Range(splitOn(data_str, 44, <<>>)) : Len(splitOn(part, 58, <<>>)) = 2

\* The body of an AJAX response: kind is "not_json", "no_key" or "fragment";
\* hrefs are the hrefs of find_all("a", href=True) in the fragment.
AjaxBody(kind, hrefs) == [kind |-> kind, hrefs |-> hrefs]

hasDocExtension(href) ==
    \E i \in 1..Len(doc_extensions) : endswith(lower(href), doc_extensions[i])

RECURSIVE found_attachments(_, _)
found_attachments(hrefs, base) ==
    IF hrefs = <<>> THEN <<>>
    ELSE LET href == Head(hrefs)
             rest == found_attachments(Tail(hrefs), base)
         IN IF hasDocExtension(href)
            THEN <<IF startswith(href, sHttp) THEN href ELSE base \o href>> \o rest
            ELSE rest

\* fetch_ajax_attachments up to the POST: TRUE when the POST is issued
ajax_issues_post(node) == Truthy(node.data) /\ payloadParses(node.data)

\* fault: the outcome of the POST is not examined
ajax_result_unchecked(outcome, body, base) ==
    IF body.kind = "fragment" THEN found_attachments(body.hrefs, base) ELSE <<>>

\* fetch_ajax_attachments after the POST: outcome is "ok" or the class of the
\* exception that session.post / raise_for_status raised
ajax_result(outcome, body, base) ==
    IF outcome # "ok" THEN <<>>
    ELSE IF body.kind = "fragment" THEN found_attachments(body.hrefs, base)
    ELSE <<>>

\* fault: save_lines_to_file ignores sort_lines
save_lines_unsorted(lines, sort_lines) == lines

\* FileHandler.save_lines_to_file: the lines joined into the file's content
save_lines_to_file(lines, sort_lines) == IF sort_lines THEN sorted(lines) ELSE lines

\* ------------------------------------------------------------- the websites
\* What the sites may serve.  Texts: "doc1".."doc6", "catA", "catB".
tDoc(n) == <<100, 111, 99>> \o str(n)
uFile(n) == <<47, 102>> \o str(n) \o <<46, 112, 100, 102>>

\* the menu page: no category anchor; two categories; a category anchor
\* without href followed by a good one
MenuDocs ==
    { Doc(<<>>, <<>>, <<>>, <<>>, <<>>),
      Doc(<< Anchor(<<32, 99, 97, 116, 65, 32>>, <<47, 97>>), Anchor(<<99, 97, 116, 66>>, <<104, 116, 116, 112, 58, 47, 47, 115, 47, 98>>) >>, <<>>, <<>>, <<>>, <<>>),
      Doc(<< Anchor(<<99, 97, 116, 65>>, None), Anchor(<<99, 97, 116, 66>>, <<47, 98>>) >>, <<>>, <<>>, <<>>, <<>>) }

\* a category's first page: without pagination links, and with links to
\* "?page=2" and "?page=1"
FirstPageDocs ==
    { Doc(<<>>, <<>>, <<>>, <<>>, <<>>),
      Doc(<<>>, <<>>, <<>>,
          << Anchor(<<50>>, sPageQuery \o <<50>>), Anchor(<<49>>, sPageQuery \o <<49>>) >>,
          <<>>) }

\* three documents (a root-relative href, a placeholder href with a redirect,
\* an absolute href) and the pager glyphs
PgThree ==
    Doc(<<>>,
        << Anchor(<<32>> \o tDoc(1), uFile(1)),
           [text |-> tDoc(2), href |-> sHash, onclick |-> <<108, 111, 99, 97, 116, 105, 111, 110, 46, 104, 114, 101, 102, 61, 39, 47, 102, 50, 46, 112, 100, 102, 39, 59>>,
            request |-> None, data |-> None],
           Anchor(tDoc(3), <<104, 116, 116, 112, 58, 47, 47, 121, 47, 102, 51, 46, 112, 100, 102>>), Anchor(<<50>>, sPageQuery \o <<50>>),
           Anchor(<<187>>, sPageQuery \o <<50>>) >>,
        <<>>, <<>>, <<>>)
\* nothing under tbody; the alternate container holds one URL under two
\* titles and twice under the same title, an anchor without href and a bare
\* placeholder href
PgDup ==
    Doc(<<>>, <<>>,
        << Anchor(tDoc(1), uFile(1)), Anchor(tDoc(2), uFile(1)), Anchor(tDoc(1), uFile(1)),
           Anchor(tDoc(5), None), Anchor(tDoc(6), sHash) >>,
        <<>>, <<>>)
\* attachments behind the AJAX handler: a good payload, a malformed one, none
PgAjax ==
    Doc(<<>>,
        << AjaxAnchor(tDoc(4), <<105, 100, 58, 55, 44, 107, 58, 118>>), AjaxAnchor(tDoc(4), <<105, 100, 58, 55, 58, 57>>),
           AjaxAnchor(tDoc(4), None) >>,
        <<>>, <<>>, <<>>)
\* only pager glyphs under tbody, a document in the alternate container
PgNav ==
    Doc(<<>>, << Anchor(<<50>>, sPageQuery \o <<50>>), Anchor(<<187>>, sPageQuery \o <<50>>) >>,
        << Anchor(tDoc(2), uFile(2)) >>, <<>>, <<>>)

PageDocs == {PgThree, PgDup, PgAjax, PgNav}

\* AJAX response bodies: not JSON; JSON without "#rndbox_body"; a fragment
\* linking "/f1.pdf", "http://y/G4.PDF" and "/x.html"
AjaxBodies ==
    { AjaxBody("not_json", <<>>), AjaxBody("no_key", <<>>),
      AjaxBody("fragment", << uFile(1), <<104, 116, 116, 112, 58, 47, 47, 121, 47, 71, 52, 46, 80, 68, 70>>, <<47, 120, 46, 104, 116, 109, 108>> >>) }

\* news listing pages: no anchor; anchors that are all skipped; one article;
\* two articles and a skipped anchor
ListingDocs ==
    { Doc(<<>>, <<>>, <<>>, <<>>, <<>>),
      Doc(<<>>, << Anchor(<<32, 32>>, <<47, 110, 48>>), Anchor(<<116, 105, 116, 108, 101>>, None) >>, <<>>, <<>>, <<>>),
      Doc(<<>>, << Anchor(<<110, 101, 119, 115, 32, 32, 32, 111, 110, 101>>, <<47, 110, 49>>) >>, <<>>, <<>>, <<>>),
      Doc(<<>>, << Anchor(<<110, 101, 119, 115, 32, 111, 110, 101>>, <<47, 110, 49>>), Anchor(<<32, 110, 101, 119, 115, 32, 116, 119, 111, 32>>, <<104, 116, 116, 112, 58, 47, 47, 110, 47, 110, 50>>),
                   Anchor(EmptyStr, <<47, 110, 51>>) >>, <<>>, <<>>, <<>>) }

\* article pages: no paragraph; blank paragraphs; " p1 " and "p2"
ArticleDocs ==
    { Doc(<<>>, <<>>, <<>>, <<>>, <<>>),
      Doc(<<>>, <<>>, <<>>, <<>>, << <<32, 32>>, EmptyStr >>),
      Doc(<<>>, <<>>, <<>>, <<>>, << <<32, 112, 49, 32>>, <<112, 50>> >>) }

\* get_page_content returns None when make_request returned None
NoSoup == [missing |-> TRUE]

\* anchors handed to the WebParser functions on their own:
\*   "2" -> "?page=2", ">>" glyph -> "/l?page=3", next-page label ->
\*   "/l?c=1&page=5", " doc1 " -> "/f1.pdf", "doc2" -> "#" with onclick
\*   "location.href='/f2.pdf';", "doc3" -> "http://y/f3.pdf", "doc" ->
\*   "a/b.pdf", "doc7" -> "#" with onclick "location.href='/c';return false;",
\*   "next" -> "?page=", "doc5" without href, "doc6" -> "#" without onclick,
\*   "doc8" -> "#" with onclick 'x();location.href="http://y/z" ; ',
\*   "doc4" -> "http://y/G4.PDF", "doc9" -> "/r.xls"
sReturnFalse == <<114, 101, 116, 117, 114, 110, 32, 102, 97, 108, 115, 101, 59>>

OnclickAnchor(text, onclick) ==
    [text |-> text, href |-> sHash, onclick |-> onclick, request |-> None, data |-> None]

ParserAnchors ==
    { Anchor(<<50>>, sPageQuery \o <<50>>),
      Anchor(<<187>>, <<47, 108>> \o sPageQuery \o <<51>>),
      Anchor(<<19979, 19968, 38913>>, <<47, 108, 63, 99, 61, 49, 38>> \o sPageEq \o <<53>>),
      Anchor(<<32>> \o tDoc(1) \o <<32>>, uFile(1)),
      OnclickAnchor(tDoc(2), sLocationHref \o <<39>> \o uFile(2) \o <<39, 59>>),
      Anchor(tDoc(3), <<104, 116, 116, 112, 58, 47, 47, 121, 47, 102, 51, 46, 112, 100, 102>>),
      Anchor(<<100, 111, 99>>, <<97, 47, 98, 46, 112, 100, 102>>),
      OnclickAnchor(tDoc(7), sLocationHref \o <<39, 47, 99, 39, 59>> \o sReturnFalse),
      Anchor(<<110, 101, 120, 116>>, sPageQuery),
      Anchor(tDoc(5), None),
      Anchor(tDoc(6), sHash),
      OnclickAnchor(tDoc(8), <<120, 40, 41, 59>> \o sLocationHref
                              \o <<34, 104, 116, 116, 112, 58, 47, 47, 121, 47, 122, 34, 32, 59, 32>>),
      Anchor(tDoc(4), <<104, 116, 116, 112, 58, 47, 47, 121, 47, 71, 52, 46, 80, 68, 70>>),
      Anchor(tDoc(9), <<47, 114, 46, 120, 108, 115>>) }

\* pagination anchors for the page values 1, 3, 5, 2, 7, 4
PageAnchor(n) == Anchor(str(n), <<47, 108>> \o sPageQuery \o str(n))

PageSix == {PageAnchor(1), PageAnchor(3), PageAnchor(5), PageAnchor(2), PageAnchor(7), PageAnchor(4)}

\* the anchor lists of length 0..n over S
RECURSIVE SeqsUpTo(_, _)
SeqsUpTo(n, S) ==
    IF n = 0 THEN {<<>>}
    ELSE LET shorter == SeqsUpTo(n - 1, S)
         IN shorter \cup {Append(q, x) : q \in shorter, x \in S}

ParserInputs == SeqsUpTo(MaxNodes, ParserAnchors) \cup Orderings(PageSix)

\* base URLs handed to the WebParser functions: "http://s" and "https://x"
ParserBases == {base_url, <<104, 116, 116, 112, 115, 58, 47, 47, 120>>}

\* ------------------------------------------------------------------- state
VARIABLES
    target,            \* which orchestrator this run is: "personnel" or "news"
    max_retries,       \* BaseCrawler.max_retries
    max_pages,         \* NewsCrawler.max_pages
    request_delay,     \* BaseCrawler.request_delay
    pc,                \* where the blocking crawl() call stands
    result,            \* the value crawl() returned
    req,               \* the make_request call in progress or last made
    attempt,           \* make_request's loop variable
    ret,               \* what make_request gave its caller
    exc,               \* the class of the exception in flight
    call,              \* per make_request call: attempts made, sleeps slept, last outcome
    sent,              \* every kind of HTTP request put on the session, and by whom
    category_links, ci, total_documents,
    category_url, max_page, page, document_count,
    nodes, ni, page_count,
    page_pairs,        \* the (title, URL) pairs resolved on the page being crawled
    attachments_data, pdf_links_set,
    resolved,          \* every (title, URL) pair a resolver handed to the record loop
    catLog,            \* per finished category: its tally, and whether a step failed
    pageLog,           \* the same per page of the category being crawled
    npage,             \* NewsCrawler.crawl's loop variable, 0 while unbound
    total_articles, articles_data, ai, page_articles, news_articles,
    listingLog,        \* per listing page: its number, fetch failure, articles kept
    sink_calls,        \* calls of _save_results that reached the FileHandler
    pdf_links_file, personnel_data_file, news_texts_file, news_data_file,
    session,           \* BaseCrawler.session: "open" or "closed"
    reused,            \* crawl() was called again on the same object
    page_soup,         \* the listing page _crawl_page is working on
    ajax_last,         \* how the last fetch_ajax_attachments call ended
    p_nodes,           \* the anchors a WebParser function is applied to
    p_out,             \* the function applied and the value it returned
    p_base,            \* the base_url argument of the function
    article_soup,      \* what _crawl_article_content got for the last article
    cat_gets,          \* the listing GETs put on the wire for the category being crawled
    config_max_pages,  \* websites.news.max_pages in the ConfigManager the callers share
    configured_max_pages,  \* the value of it the service was started with
    requests           \* per crawl request served: its pages argument, the max_pages it ran with

cfgVars == <<target, max_retries, max_pages, request_delay>>
execVars == <<req, attempt, ret, exc, call, sent>>
catVars == <<category_links, ci, total_documents, catLog>>
pageVars == <<category_url, max_page, page, document_count, pageLog>>
nodeVars == <<nodes, ni, page_count, page_pairs, page_soup>>
indexVars == <<attachments_data, pdf_links_set, resolved>>
persVars == <<catVars, pageVars, nodeVars, indexVars>>
newsVars == <<npage, total_articles, articles_data, ai, page_articles, news_articles, listingLog>>
sinkVars == <<sink_calls, pdf_links_file, personnel_data_file, news_texts_file, news_data_file>>
scopeVars == <<session, reused>>
parserVars == <<p_nodes, p_out, p_base>>
svcVars == <<config_max_pages, configured_max_pages, requests>>
otherVars == <<scopeVars, parserVars, svcVars>>
restVars == <<otherVars, cat_gets>>
vars == <<cfgVars, pc, result, execVars, persVars, newsVars, sinkVars, restVars, ajax_last,
         article_soup>>

NoResult == [returned |-> FALSE]

\* no listing GET yet; the log is dropped once an attempt of the category fails
NoGets == [clean |-> TRUE, urls |-> <<>>]
DroppedGets == [clean |-> FALSE, urls |-> <<>>]
NoRequest == [kind |-> "none", url |-> EmptyStr, method |-> "GET"]
NoCall == [attempts |-> 0, failures |-> 0, retry_sleeps |-> 0, post_sleeps |-> 0, last |-> "none"]
NotWritten == [written |-> FALSE]

\* requests.RequestException (timeout, connection failure, non-2xx status) and
\* an error of any other class raised while the request is issued
TransportError == "RequestException"
OtherError == "OtherError"

\* no fetch_ajax_attachments call was made yet
NoAjax == [why |-> "none", urls |-> <<>>]
\* no WebParser function was applied yet
NoOutput == [fn |-> "none"]

\* ConfigManager.get_news_max_pages, the key being present in the file
get_news_max_pages(configured) == configured

\* the state of a crawler object after __init__, and of the locals of the
\* calls that have not started
Attributes ==
    /\ result = NoResult
    /\ req = NoRequest
    /\ attempt = 0
    /\ ret = "pending"
    /\ exc = "none"
    /\ call = NoCall
    /\ sent = {}
    /\ category_links = <<>> /\ ci = 1 /\ total_documents = 0
    /\ category_url = EmptyStr /\ max_page = 1 /\ page = 1 /\ document_count = 0
    /\ nodes = <<>> /\ ni = 1 /\ page_count = 0 /\ page_pairs = {}
    /\ page_soup = NoSoup
    /\ ajax_last = NoAjax
    /\ article_soup = NoSoup
    /\ cat_gets = NoGets
    /\ attachments_data = <<>> /\ pdf_links_set = {}
    /\ resolved = {}
    /\ catLog = <<>> /\ pageLog = <<>>
    /\ npage = 0 /\ total_articles = 0 /\ articles_data = <<>> /\ ai = 1
    /\ page_articles = <<>> /\ news_articles = <<>> /\ listingLog = <<>>
    /\ sink_calls = 0
    /\ session = "open"
    /\ reused = FALSE

\* no output file exists yet
NoFiles ==
    /\ pdf_links_file = NotWritten /\ personnel_data_file = NotWritten
    /\ news_texts_file = NotWritten /\ news_data_file = NotWritten

\* no crawl request was served: the shared configuration is as loaded
Unserved ==
    /\ configured_max_pages = config_max_pages
    /\ requests = <<>>

Constructed ==
    /\ pc = "idle"
    /\ Attributes
    /\ NoFiles

Init ==
    /\ target \in {"personnel", "news"}
    /\ max_retries \in 0..MaxRetriesBound
    /\ config_max_pages \in 0..MaxPagesBound
    /\ max_pages = get_news_max_pages(config_max_pages)
    /\ request_delay \in RequestDelays
    /\ Constructed
    /\ Unserved
    /\ p_nodes = <<>>
    /\ p_out = NoOutput
    /\ p_base = base_url

\* fault: make_request catches every exception, "except Exception"
make_request_catches_all(e) == TRUE

\* ------------------------------------------------- BaseCrawler.make_request
\* "except requests.RequestException"
make_request_catches(e) == e = TransportError

\* fault: no test before the retry sleep
attempts_remain_always(a) == TRUE

\* fault: the retry test is off by one, "attempt < self.max_retries - 1"
attempts_remain_short(a) == a < max_retries - 1

\* "if attempt < self.max_retries": a retry follows the failed attempt
attempts_remain(a) == a < max_retries

\* "for attempt in range(self.max_retries + 1)"
attempt_range == 0..max_retries

\* "if self.request_delay > 0"
post_success_sleeps == IF request_delay > 0 THEN 1 ELSE 0

\* fault: the post-success sleep sits outside the try block's success path
sleeps_after_every(outcome) == post_success_sleeps

\* the sleep of lines 93-94 follows raise_for_status inside the try block: it
\* is reached after a successful attempt only
sleeps_after(outcome) == IF outcome = "ok" THEN post_success_sleeps ELSE 0

\* a caller enters make_request(url, method)
BeginRequest(kind, url, method) ==
    /\ req' = [kind |-> kind, url |-> url, method |-> method]
    /\ attempt' = 0
    /\ ret' = "pending"
    /\ exc' = "none"
    /\ call' = NoCall
    /\ pc' = IF 0 \in attempt_range THEN "request" ELSE "returned"
    /\ UNCHANGED sent

Wire(kind, method, via) == [kind |-> kind, method |-> method, via |-> via]

\* the log of listing GETs after an attempt of request r with this outcome
listing_gets(log, r, outcome) ==
    IF r.kind \notin {"category", "page"} THEN log
    ELSE IF outcome = "ok" /\ log.clean THEN [log EXCEPT !.urls = Append(@, r.url)]
    ELSE DroppedGets

\* session.request succeeded and raise_for_status passed
AttemptSucceeds ==
    /\ pc = "request"
    /\ sent' = sent \cup {Wire(req.kind, req.method, "make_request")}
    /\ call' = [call EXCEPT !.attempts = @ + 1, !.post_sleeps = @ + sleeps_after("ok"),
                             !.last = "ok"]
    /\ ret' = "response"
    /\ pc' = "returned"
    /\ cat_gets' = listing_gets(cat_gets, req, "ok")
    /\ UNCHANGED <<cfgVars, otherVars, ajax_last, article_soup, result, req, attempt, exc,
                   persVars, newsVars, sinkVars>>

\* session.request or raise_for_status raised an exception of class e
AttemptRaises(e) ==
    /\ pc = "request"
    /\ sent' = sent \cup {Wire(req.kind, req.method, "make_request")}
    /\ IF make_request_catches(e)
       THEN IF attempts_remain(attempt)
            THEN /\ call' = [call EXCEPT !.attempts = @ + 1, !.failures = @ + 1,
                                         !.retry_sleeps = @ + 1,
                                         !.post_sleeps = @ + sleeps_after(e), !.last = e]
                 /\ IF attempt + 1 \in attempt_range
                    THEN attempt' = attempt + 1 /\ ret' = ret /\ pc' = pc
                    ELSE attempt' = attempt /\ ret' = "none" /\ pc' = "returned"
                 /\ exc' = exc
            ELSE /\ call' = [call EXCEPT !.attempts = @ + 1, !.failures = @ + 1,
                                         !.post_sleeps = @ + sleeps_after(e), !.last = e]
                 /\ ret' = "none"
                 /\ pc' = "returned"
                 /\ UNCHANGED <<attempt, exc>>
       ELSE /\ call' = [call EXCEPT !.attempts = @ + 1,
                                    !.post_sleeps = @ + sleeps_after(e), !.last = e]
            /\ ret' = "raised"
            /\ exc' = e
            /\ pc' = "returned"
            /\ UNCHANGED attempt
    /\ cat_gets' = listing_gets(cat_gets, req, e)
    /\ UNCHANGED <<cfgVars, otherVars, ajax_last, article_soup, result, req, persVars,
                   newsVars, sinkVars>>

AttemptTransportError == AttemptRaises(TransportError)

AttemptOtherError == AttemptRaises(OtherError)

\* BaseCrawler.get_page_content: the parsed body, or None
get_page_content(r, body) == IF r = "response" THEN body ELSE NoSoup

\* --------------------------------------------------------- PersonnelCrawler
Exceptions == {TransportError, OtherError, "AttributeError", "UnboundLocalError"}

\* "except Exception" of crawl, _crawl_category and _crawl_page
personnel_crawl_catches_requests(e) == e = TransportError

personnel_crawl_catches(e) == e \in Exceptions

\* fault: _crawl_category catches request errors only
crawl_category_catches_requests(e) == e = TransportError

crawl_category_catches(e) == e \in Exceptions

crawl_page_catches(e) == e \in Exceptions

\* fault: crawl does not test menu_soup
menu_unavailable_unchecked(menu_soup) == FALSE

\* "if not menu_soup"
menu_unavailable(menu_soup) == menu_soup = NoSoup

\* fault: crawl does not test category_links
no_category_links_unchecked(links) == FALSE

\* "if not category_links"
no_category_links(links) == links = <<>>

\* soup.select on None raises, which _parse_category_links turns into []
parse_category_links(soup) ==
    IF soup = NoSoup THEN <<>>
    ELSE [i \in 1..Len(soup.group) |->
             [title |-> strip(soup.group[i].text), href |-> soup.group[i].href]]

\* fault: the matches of both selectors are merged
inner_links_merged(soup) == soup.tbody \o soup.rndbox

\* page_soup.select("tbody a") or page_soup.select("#rndbox_body a")
inner_links(soup) == IF soup.tbody # <<>> THEN soup.tbody ELSE soup.rndbox

\* fault: "document_count = page_count" for "document_count += page_count"
page_tally_overwrites(count, page_cnt) == page_cnt

\* "document_count += page_count" of _crawl_category
page_tally(count, page_cnt) == count + page_cnt

\* "total_documents += category_count" of crawl
category_tally(total, category_count) == total + category_count

\* attachments_data is a defaultdict(list): an ordered map title -> list
titleUrls(data, title) ==
    IF \E i \in 1..Len(data) : data[i].title = title
    THEN (CHOOSE e \in Range(data) : e.title = title).urls
    ELSE <<>>

\* reading attachments_data[title] creates the key
touch(data, title) ==
    IF \E i \in 1..Len(data) : data[i].title = title THEN data
    ELSE Append(data, [title |-> title, urls |-> <<>>])

appendUrl(data, title, url) ==
    [i \in 1..Len(data) |->
        IF data[i].title = title THEN [data[i] EXCEPT !.urls = Append(@, url)] ELSE data[i]]

\* fault: no membership test
already_recorded_never(data, links, title, url) == FALSE

\* fault: the membership test reads the global set, "url not in self.pdf_links_set"
already_recorded_globally(data, links, title, url) == url \in links

\* "url not in self.attachments_data[document_title]", negated
already_recorded(data, links, title, url) == url \in Range(titleUrls(data, title))

\* the loop "for url in urls" of _crawl_page
RECURSIVE record_urls(_, _, _)
record_urls(urls, title, st) ==
    IF urls = <<>> THEN st
    ELSE LET url == Head(urls)
         IN IF ~Truthy(url) THEN record_urls(Tail(urls), title, st)
            ELSE IF already_recorded(st.data, st.links, title, url)
            THEN record_urls(Tail(urls), title, [st EXCEPT !.data = touch(@, title)])
            ELSE record_urls(Tail(urls), title,
                     [data |-> appendUrl(touch(st.data, title), title, url),
                      links |-> st.links \cup {url},
                      count |-> st.count + 1])

Pairs(title, urls) == {[title |-> title, url |-> u] : u \in Range(urls)}

AnyFailed(log) == \E i \in 1..Len(log) : log[i].failed

PersonnelReturns(res) == pc' = "done" /\ result' = res

PersonnelRaises(e) ==
    IF personnel_crawl_catches(e)
    THEN pc' = "done" /\ result' = [success |-> FALSE, error |-> e]
    ELSE pc' = "raised" /\ result' = NoResult

\* _crawl_category returns count to crawl, whose loop goes on
CategoryEnds(count, failed, pages) ==
    /\ total_documents' = category_tally(total_documents, count)
    /\ ci' = ci + 1
    /\ catLog' = Append(catLog, [failed |-> failed, count |-> count, pages |-> pages])
    /\ pc' = "category"
    /\ UNCHANGED <<result, category_links>>

CategoryRaises(e, pages) ==
    IF crawl_category_catches(e)
    THEN CategoryEnds(0, TRUE, pages)
    ELSE PersonnelRaises(e) /\ UNCHANGED catVars

\* _crawl_page returns count to _crawl_category, whose loop goes on
PageEnds(count, failed, pairs) ==
    /\ document_count' = page_tally(document_count, count)
    /\ page' = page + 1
    /\ pageLog' = Append(pageLog, [failed |-> failed, count |-> count, pairs |-> pairs])
    /\ pc' = "page"
    /\ UNCHANGED <<result, category_url, max_page>>

PageRaises(e) ==
    IF crawl_page_catches(e)
    THEN PageEnds(0, TRUE, {}) /\ UNCHANGED catVars
    ELSE CategoryRaises(e, pageLog) /\ UNCHANGED pageVars

\* crawl(): fetch the menu page
PersonnelCrawl ==
    /\ pc = "idle"
    /\ target = "personnel"
    /\ BeginRequest("menu", menu_url, "GET")
    /\ UNCHANGED <<cfgVars, restVars, ajax_last, article_soup, result, persVars, newsVars, sinkVars>>

\* crawl() after get_page_content(menu_url): lines 48-59
MenuReturned ==
    /\ pc = "returned"
    /\ req.kind = "menu"
    /\ IF ret = "raised"
       THEN PersonnelRaises(exc) /\ UNCHANGED catVars
       ELSE \E body \in MenuDocs :
              LET menu_soup == get_page_content(ret, body)
                  links == parse_category_links(menu_soup)
              IN IF menu_unavailable(menu_soup)
                 THEN /\ PersonnelReturns([success |-> FALSE, error |-> "menu page unavailable"])
                      /\ UNCHANGED catVars
                 ELSE IF no_category_links(links)
                 THEN /\ PersonnelReturns([success |-> FALSE, error |-> "no category links"])
                      /\ UNCHANGED catVars
                 ELSE /\ category_links' = links
                      /\ ci' = 1
                      /\ total_documents' = 0
                      /\ pc' = "category"
                      /\ UNCHANGED <<result, catLog>>
    /\ UNCHANGED <<cfgVars, restVars, ajax_last, article_soup, execVars, pageVars, nodeVars, indexVars, newsVars, sinkVars>>

\* the next category of crawl()'s loop: _crawl_category up to its first fetch
CrawlCategory ==
    /\ pc = "category"
    /\ ci <= Len(category_links)
    /\ LET href == category_links[ci].href
           url == IF startswith(href, sHttp) THEN href ELSE base_url \o href
       IN IF href = None
          THEN /\ CategoryRaises("AttributeError", <<>>)
               /\ UNCHANGED <<execVars, category_url>>
          ELSE /\ category_url' = url
               /\ BeginRequest("category", url, "GET")
               /\ UNCHANGED <<result, catVars>>
    /\ pageLog' = <<>>
    /\ cat_gets' = NoGets
    /\ UNCHANGED <<cfgVars, otherVars, ajax_last, article_soup, max_page, page, document_count, nodeVars, indexVars,
                   newsVars, sinkVars>>

\* _crawl_category after get_page_content(category_url): lines 127-134
CategoryFirstReturned ==
    /\ pc = "returned"
    /\ req.kind = "category"
    /\ IF ret = "raised"
       THEN CategoryRaises(exc, <<>>) /\ UNCHANGED pageVars
       ELSE \E body \in FirstPageDocs :
              LET first_page_soup == get_page_content(ret, body)
              IN IF first_page_soup = NoSoup
                 THEN CategoryEnds(0, TRUE, <<>>) /\ UNCHANGED pageVars
                 ELSE /\ max_page' = get_max_page(first_page_soup)
                      /\ page' = 1
                      /\ document_count' = 0
                      /\ pc' = "page"
                      /\ UNCHANGED <<result, catVars, category_url, pageLog>>
    /\ UNCHANGED <<cfgVars, restVars, ajax_last, article_soup, execVars, nodeVars, indexVars, newsVars, sinkVars>>

\* fault: range(1, max_page) leaves the last page out
pages_remain_short(p, last) == p < last

\* "for page in range(1, max_page + 1)"
pages_remain(p, last) == p <= last

\* the next page of _crawl_category's loop: _crawl_page up to its fetch
CrawlPage ==
    /\ pc = "page"
    /\ pages_remain(page, max_page)
    /\ BeginRequest("page", category_url \o sPageQuery \o str(page), "GET")
    /\ UNCHANGED <<cfgVars, restVars, ajax_last, article_soup, result, persVars, newsVars, sinkVars>>

\* _crawl_category's loop is over: "return document_count"
CategoryLoopEnds ==
    /\ pc = "page"
    /\ ~pages_remain(page, max_page)
    /\ CategoryEnds(document_count, AnyFailed(pageLog), pageLog)
    /\ UNCHANGED <<cfgVars, restVars, ajax_last, article_soup, execVars, pageVars, nodeVars, indexVars, newsVars, sinkVars>>

\* _crawl_page after get_page_content(page_url): lines 163-171
PageReturned ==
    /\ pc = "returned"
    /\ req.kind = "page"
    /\ IF ret = "raised"
       THEN PageRaises(exc) /\ UNCHANGED nodeVars
       ELSE \E body \in PageDocs :
              LET soup == get_page_content(ret, body)
              IN IF soup = NoSoup
                 THEN PageEnds(0, TRUE, {}) /\ UNCHANGED <<catVars, nodeVars>>
                 ELSE /\ page_soup' = soup
                      /\ nodes' = filter_navigation_links(inner_links(soup))
                      /\ ni' = 1
                      /\ page_count' = 0
                      /\ page_pairs' = {}
                      /\ pc' = "node"
                      /\ UNCHANGED <<result, catVars, pageVars>>
    /\ UNCHANGED <<cfgVars, restVars, ajax_last, article_soup, execVars, indexVars, newsVars, sinkVars>>

\* lines 187-193 for the URLs one node resolved to; the node loop goes on
RecordUrls(title, urls) ==
    LET st == record_urls(urls, title,
                  [data |-> attachments_data, links |-> pdf_links_set, count |-> page_count])
    IN /\ attachments_data' = st.data
       /\ pdf_links_set' = st.links
       /\ page_count' = st.count
       /\ resolved' = resolved \cup Pairs(title, urls)
       /\ page_pairs' = page_pairs \cup Pairs(title, urls)
       /\ ni' = ni + 1
       /\ UNCHANGED <<nodes, page_soup>>

\* the return statement or except clause by which fetch_ajax_attachments ends
\* before the POST
ajax_payload_fault(node) == IF ~Truthy(node.data) THEN "no_payload" ELSE "bad_payload"

\* the same after the POST
ajax_ending(outcome, body) ==
    IF outcome = TransportError THEN "transport"
    ELSE IF outcome # "ok" THEN "error"
    ELSE IF body.kind = "not_json" THEN "not_json"
    ELSE IF body.kind = "no_key" THEN "no_key"
    ELSE "fragment"

\* a node without the AJAX marker: extract_href
PlainNode ==
    /\ pc = "node"
    /\ ni <= Len(nodes)
    /\ nodes[ni].request # onAttachmentDetail
    /\ LET href == extract_href(nodes[ni], base_url)
       IN RecordUrls(strip(nodes[ni].text), IF Truthy(href) THEN <<href>> ELSE <<>>)
    /\ UNCHANGED <<cfgVars, restVars, ajax_last, article_soup, pc, result, execVars, catVars, pageVars, newsVars, sinkVars>>

\* a node with the AJAX marker: fetch_ajax_attachments up to session.post
AjaxNode ==
    /\ pc = "node"
    /\ ni <= Len(nodes)
    /\ nodes[ni].request = onAttachmentDetail
    /\ IF ajax_issues_post(nodes[ni])
       THEN /\ pc' = "ajax_post"
            /\ sent' = sent \cup {Wire("ajax", "POST", "session.post")}
            /\ UNCHANGED <<nodeVars, indexVars, ajax_last>>
       ELSE /\ RecordUrls(strip(nodes[ni].text), <<>>)
            /\ ajax_last' = [why |-> ajax_payload_fault(nodes[ni]), urls |-> <<>>]
            /\ UNCHANGED <<pc, sent>>
    /\ UNCHANGED <<cfgVars, restVars, article_soup, result, req, attempt, ret, exc, call, catVars, pageVars,
                   newsVars, sinkVars>>

\* session.post returned or raised: the rest of fetch_ajax_attachments
AjaxPostReturns ==
    /\ pc = "ajax_post"
    /\ \E outcome \in {"ok", TransportError, OtherError}, body \in AjaxBodies :
          /\ RecordUrls(strip(nodes[ni].text), ajax_result(outcome, body, base_url))
          /\ ajax_last' = [why |-> ajax_ending(outcome, body),
                           urls |-> ajax_result(outcome, body, base_url)]
    /\ pc' = "node"
    /\ UNCHANGED <<cfgVars, restVars, article_soup, result, execVars, catVars, pageVars, newsVars, sinkVars>>

\* _crawl_page's node loop is over: "return document_count"
PageLoopEnds ==
    /\ pc = "node"
    /\ ni > Len(nodes)
    /\ PageEnds(page_count, FALSE, page_pairs)
    /\ UNCHANGED <<cfgVars, restVars, ajax_last, article_soup, execVars, catVars, nodeVars, indexVars, newsVars, sinkVars>>

\* crawl() after its category loop: _save_results and the result
PersonnelFinish ==
    /\ pc = "category"
    /\ ci > Len(category_links)
    /\ \E order \in Orderings(pdf_links_set) :
          pdf_links_file' = [written |-> TRUE, lines |-> save_lines_to_file(order, TRUE)]
    /\ personnel_data_file' =
          [written |-> TRUE, categories |-> attachments_data,
           total_documents |-> Cardinality(pdf_links_set)]
    /\ sink_calls' = sink_calls + 1
    /\ PersonnelReturns([success |-> TRUE,
                         total_categories |-> Len(category_links),
                         total_documents |-> total_documents,
                         unique_pdf_links |-> Cardinality(pdf_links_set)])
    /\ UNCHANGED <<cfgVars, restVars, ajax_last, article_soup, execVars, persVars, newsVars, news_texts_file, news_data_file>>

\* --------------------------------------------------------------- NewsCrawler
\* "except Exception" of crawl, _crawl_news_page and _crawl_article_content
news_crawl_catches(e) == e \in Exceptions

\* fault: _crawl_news_page catches request errors only
crawl_news_page_catches_requests(e) == e = TransportError

crawl_news_page_catches(e) == e \in Exceptions

crawl_article_content_catches(e) == e \in Exceptions

\* "if not page_articles: break"
stops_after(articles) == articles = <<>>

\* "for page in range(1, self.max_pages + 1)": the page after npage, if any
has_next_page(p) == p + 1 \in 1..max_pages

\* lines 99-111 of _crawl_news_page: the (url, title) pairs of the anchors
\* that have both
RECURSIVE extract_articles_data(_)
extract_articles_data(article_links) ==
    IF article_links = <<>> THEN <<>>
    ELSE LET link == Head(article_links)
             article_title == strip(link.text)
             rest == extract_articles_data(Tail(article_links))
         IN IF Truthy(link.href) /\ article_title # EmptyStr
            THEN <<[url |-> link.href, title |-> join(<<32>>, splitWs(article_title, <<>>, <<>>))]>>
                 \o rest
            ELSE rest

\* lines 154-155 of _crawl_article_content: the trimmed non-empty paragraph
\* texts, concatenated
RECURSIVE combined_content(_)
combined_content(paras) ==
    IF paras = <<>> THEN <<>>
    ELSE strip(Head(paras)) \o combined_content(Tail(paras))

\* fault: an article whose paragraphs are all blank is kept
article_kept_blank(soup) == soup # NoSoup /\ soup.paras # <<>>

\* the three "return None" tests of _crawl_article_content, negated
article_kept(soup) ==
    /\ soup # NoSoup
    /\ soup.paras # <<>>
    /\ combined_content(soup.paras) # EmptyStr

sUrl == <<85, 82, 76, 58, 32>>
sTitle == <<84, 105, 116, 108, 101, 58, 32>>
sDivider == [i \in 1..80 |-> 61]

\* _save_as_text_file: the lines of the text dump
RECURSIVE content_lines(_)
content_lines(articles) ==
    IF articles = <<>> THEN <<>>
    ELSE << sUrl \o Head(articles).url, sTitle \o Head(articles).title,
            Head(articles).content, sDivider >> \o content_lines(Tail(articles))

NewsRaises(e) ==
    IF news_crawl_catches(e)
    THEN pc' = "done" /\ result' = [success |-> FALSE, error |-> e]
    ELSE pc' = "raised" /\ result' = NoResult

\* crawl() after its page loop: _save_results, then the result, which reads
\* the loop variable
NewsFinish(total) ==
    /\ news_texts_file' = [written |-> TRUE, lines |-> content_lines(news_articles)]
    /\ news_data_file' =
          [written |-> TRUE, articles |-> news_articles, total_count |-> Len(news_articles)]
    /\ sink_calls' = sink_calls + 1
    /\ UNCHANGED <<pdf_links_file, personnel_data_file>>
    /\ IF npage = 0
       THEN NewsRaises("UnboundLocalError")
       ELSE /\ pc' = "done"
            /\ result' = [success |-> TRUE, total_pages |-> npage, total_articles |-> total]

\* _crawl_news_page returns articles to crawl: lines 49-56
NewsPageEnds(articles, failed) ==
    /\ total_articles' = total_articles + Len(articles)
    /\ listingLog' = Append(listingLog,
                            [page |-> npage, failed |-> failed, count |-> Len(articles)])
    /\ IF stops_after(articles)
       THEN NewsFinish(total_articles + Len(articles))
       ELSE pc' = "listing" /\ UNCHANGED <<result, sinkVars>>

NewsPageRaises(e) ==
    IF crawl_news_page_catches(e)
    THEN NewsPageEnds(<<>>, TRUE)
    ELSE NewsRaises(e) /\ UNCHANGED <<total_articles, listingLog, sinkVars>>

\* crawl(): lines 40-43
NewsCrawl ==
    /\ pc = "idle"
    /\ target = "news"
    /\ total_articles' = 0
    /\ pc' = "listing"
    /\ UNCHANGED <<cfgVars, restVars, ajax_last, article_soup, result, execVars, persVars, npage, articles_data, ai,
                   page_articles, news_articles, listingLog, sinkVars>>

\* the next page of crawl()'s loop: _crawl_news_page up to its fetch
CrawlNewsPage ==
    /\ pc = "listing"
    /\ has_next_page(npage)
    /\ npage' = npage + 1
    /\ BeginRequest("listing", news_category_url \o sPageQuery \o str(npage + 1), "GET")
    /\ UNCHANGED <<cfgVars, restVars, ajax_last, article_soup, result, persVars, total_articles, articles_data, ai,
                   page_articles, news_articles, listingLog, sinkVars>>

\* crawl()'s loop ran out of pages
NewsLoopEnds ==
    /\ pc = "listing"
    /\ ~has_next_page(npage)
    /\ NewsFinish(total_articles)
    /\ UNCHANGED <<cfgVars, restVars, ajax_last, article_soup, execVars, persVars, newsVars>>

\* _crawl_news_page after get_page_content(page_url): lines 88-114
ListingReturned ==
    /\ pc = "returned"
    /\ req.kind = "listing"
    /\ IF ret = "raised"
       THEN NewsPageRaises(exc) /\ UNCHANGED <<articles_data, ai, page_articles>>
       ELSE \E body \in ListingDocs :
              LET soup == get_page_content(ret, body)
              IN IF soup = NoSoup
                 THEN NewsPageEnds(<<>>, TRUE) /\ UNCHANGED <<articles_data, ai, page_articles>>
                 ELSE IF soup.tbody = <<>>
                 THEN NewsPageEnds(<<>>, FALSE) /\ UNCHANGED <<articles_data, ai, page_articles>>
                 ELSE /\ articles_data' = extract_articles_data(soup.tbody)
                      /\ ai' = 1
                      /\ page_articles' = <<>>
                      /\ pc' = "article"
                      /\ UNCHANGED <<result, total_articles, listingLog, sinkVars>>
    /\ UNCHANGED <<cfgVars, restVars, ajax_last, article_soup, execVars, persVars, npage, news_articles>>

\* the next article of _crawl_news_page's loop: _crawl_article_content up to
\* its fetch
CrawlArticle ==
    /\ pc = "article"
    /\ ai <= Len(articles_data)
    /\ BeginRequest("article", articles_data[ai].url, "GET")
    /\ UNCHANGED <<cfgVars, restVars, ajax_last, article_soup, result, persVars, newsVars, sinkVars>>

\* _crawl_news_page's article loop is over: "return page_articles"
ArticleLoopEnds ==
    /\ pc = "article"
    /\ ai > Len(articles_data)
    /\ NewsPageEnds(page_articles, FALSE)
    /\ UNCHANGED <<cfgVars, restVars, ajax_last, article_soup, execVars, persVars, npage, articles_data, ai, page_articles,
                   news_articles>>

\* _crawl_article_content after get_page_content(article_url): lines 143-175,
\* then lines 121-122 of _crawl_news_page
ArticleReturned ==
    /\ pc = "returned"
    /\ req.kind = "article"
    /\ IF ret = "raised"
       THEN /\ article_soup' = NoSoup
            /\ IF crawl_article_content_catches(exc)
               THEN /\ ai' = ai + 1
                    /\ pc' = "article"
                    /\ UNCHANGED <<result, page_articles, news_articles, total_articles,
                                   listingLog, sinkVars>>
               ELSE /\ NewsPageRaises(exc)
                    /\ UNCHANGED <<ai, page_articles, news_articles>>
       ELSE \E body \in ArticleDocs :
              LET soup == get_page_content(ret, body)
                  kept == article_kept(soup)
                  article_data == [url |-> articles_data[ai].url,
                                   title |-> articles_data[ai].title,
                                   content |-> combined_content(soup.paras),
                                   timestamp |-> "now"]
              IN /\ article_soup' = soup
                 /\ news_articles' = IF kept THEN Append(news_articles, article_data)
                                     ELSE news_articles
                 /\ page_articles' = IF kept THEN Append(page_articles, article_data)
                                     ELSE page_articles
                 /\ ai' = ai + 1
                 /\ pc' = "article"
                 /\ UNCHANGED <<result, total_articles, listingLog, sinkVars>>
    /\ UNCHANGED <<cfgVars, restVars, ajax_last, execVars, persVars, npage, articles_data>>

\* ---------------------------------------------------- scope of the crawler
\* fault: __exit__ leaves the session as it is
session_after_exit_leaks(s) == s

\* "if self.session: self.session.close()"
session_after_exit(s) == IF s = "open" THEN "closed" ELSE s

\* the "with XCrawler(config) as crawler" block of the callers ends, crawl()
\* having returned or raised: BaseCrawler.__exit__
ContextExit ==
    /\ pc \in {"done", "raised"}
    /\ session = "open"
    /\ session' = session_after_exit(session)
    /\ UNCHANGED <<cfgVars, pc, result, execVars, persVars, newsVars, sinkVars, reused,
                   parserVars, svcVars, ajax_last, article_soup, cat_gets>>

\* crawl() is called once more on the same NewsCrawler, inside the same
\* "with" block: the locals of crawl() are new, the attributes of the object
\* are what the first call left
NewsCrawlAgain ==
    /\ pc = "done"
    /\ target = "news"
    /\ session = "open"
    /\ ~reused
    /\ reused' = TRUE
    /\ total_articles' = 0
    /\ npage' = 0
    /\ listingLog' = <<>>
    /\ result' = NoResult
    /\ pc' = "listing"
    /\ UNCHANGED <<cfgVars, execVars, persVars, articles_data, ai, page_articles,
                   news_articles, sinkVars, session, parserVars, svcVars, ajax_last, article_soup,
                   cat_gets>>

\* ------------------------------------------------------- the backend service
MaxRequests == 2

\* the pages argument of a request: None, or an integer
NoPages == [given |-> FALSE]
PagesArguments == {NoPages} \cup {[given |-> TRUE, pages |-> n] : n \in 0..MaxPagesBound}

\* "if pages: config._config['websites']['news']['max_pages'] = pages"
config_after_override(configured, pages) ==
    IF pages.given /\ pages.pages # 0 THEN pages.pages ELSE configured

\* XCrawler(config): every attribute as __init__ leaves it
Construct ==
    /\ result' = NoResult
    /\ req' = NoRequest
    /\ attempt' = 0
    /\ ret' = "pending"
    /\ exc' = "none"
    /\ call' = NoCall
    /\ sent' = {}
    /\ category_links' = <<>> /\ ci' = 1 /\ total_documents' = 0
    /\ category_url' = EmptyStr /\ max_page' = 1 /\ page' = 1 /\ document_count' = 0
    /\ nodes' = <<>> /\ ni' = 1 /\ page_count' = 0 /\ page_pairs' = {}
    /\ page_soup' = NoSoup
    /\ ajax_last' = NoAjax
    /\ article_soup' = NoSoup
    /\ cat_gets' = NoGets
    /\ attachments_data' = <<>> /\ pdf_links_set' = {}
    /\ resolved' = {}
    /\ catLog' = <<>> /\ pageLog' = <<>>
    /\ npage' = 0 /\ total_articles' = 0 /\ articles_data' = <<>> /\ ai' = 1
    /\ page_articles' = <<>> /\ news_articles' = <<>> /\ listingLog' = <<>>
    /\ sink_calls' = 0
    /\ session' = "open"
    /\ reused' = FALSE

\* run_crawler_task(target = "news", pages), up to crawler.crawl(): the
\* override, then NewsCrawler(config), whose __init__ reads max_pages
RunCrawlerTask ==
    /\ target = "news"
    /\ pc = "waiting" \/ (pc \in {"done", "raised"} /\ session = "closed")
    /\ Len(requests) < MaxRequests
    /\ \E pages \in PagesArguments :
          /\ config_max_pages' = config_after_override(config_max_pages, pages)
          /\ max_pages' = get_news_max_pages(config_max_pages')
          /\ requests' = Append(requests, [pages |-> pages, max_pages |-> max_pages'])
    /\ pc' = "idle"
    /\ Construct
    /\ UNCHANGED <<target, max_retries, request_delay, configured_max_pages, parserVars,
                   pdf_links_file, personnel_data_file, news_texts_file, news_data_file>>

\* ---------------------------------------------- WebParser functions alone
\* a listing document whose anchors are p_nodes
ParserDoc == Doc(<<>>, <<>>, <<>>, p_nodes, <<>>)

Applies(fn, value) ==
    /\ pc = "idle"
    /\ target = "parser"
    /\ p_out' = [fn |-> fn, value |-> value]
    /\ pc' = "done"
    /\ UNCHANGED <<cfgVars, result, execVars, persVars, newsVars, sinkVars, scopeVars,
                   svcVars, ajax_last, article_soup, cat_gets, p_nodes, p_base>>

GetMaxPage == Applies("get_max_page", get_max_page(ParserDoc))

ExtractHref ==
    Applies("extract_href", [i \in 1..Len(p_nodes) |-> extract_href(p_nodes[i], p_base)])

\* soup.find_all("a", href=True) of the fragment
HasHref(node) == node.href # None

RECURSIVE hrefs_of(_)
hrefs_of(anchors) ==
    IF anchors = <<>> THEN <<>> ELSE <<Head(anchors).href>> \o hrefs_of(Tail(anchors))

\* the loop of fetch_ajax_attachments over a fragment whose anchors are p_nodes
FoundAttachments ==
    Applies("found_attachments", found_attachments(hrefs_of(SelectSeq(p_nodes, HasHref)), p_base))

FilterNavigationLinks ==
    Applies("filter_navigation_links", filter_navigation_links(p_nodes))

\* ------------------------------------------------------------ specifications
Executor == AttemptSucceeds \/ AttemptTransportError \/ AttemptOtherError

Personnel ==
    \/ PersonnelCrawl \/ MenuReturned \/ CrawlCategory \/ CategoryFirstReturned
    \/ CrawlPage \/ CategoryLoopEnds \/ PageReturned \/ PlainNode \/ AjaxNode
    \/ AjaxPostReturns \/ PageLoopEnds \/ PersonnelFinish

News ==
    \/ NewsCrawl \/ CrawlNewsPage \/ NewsLoopEnds \/ ListingReturned
    \/ CrawlArticle \/ ArticleLoopEnds \/ ArticleReturned

Next == Executor \/ Personnel \/ News \/ ContextExit

Spec == Init /\ [][Next]_vars

\* a run of the personnel crawler
InitPersonnel == Init /\ target = "personnel"

NextPersonnel == Executor \/ Personnel \/ ContextExit

SpecPersonnel == InitPersonnel /\ [][NextPersonnel]_vars

\* a run of the news crawler
InitNews == Init /\ target = "news"

NextNews == Executor \/ News \/ ContextExit

SpecNews == InitNews /\ [][NextNews]_vars

\* a news run that is not stopped half way: the crawl is one blocking call of
\* one thread, and the "with" block runs __exit__ when it ends
SpecNewsLive == SpecNews /\ WF_vars(NextNews)

\* a NewsCrawler on which crawl() may be called a second time
NextNewsReuse == NextNews \/ NewsCrawlAgain

SpecNewsReuse == InitNews /\ [][NextNewsReuse]_vars

\* the backend service: crawl requests for the news target, served one after
\* the other with the ConfigManager of the process
InitService ==
    /\ target = "news"
    /\ max_retries = 0 /\ request_delay = 0
    /\ config_max_pages \in 0..MaxPagesBound
    /\ max_pages = get_news_max_pages(config_max_pages)
    /\ pc = "waiting"
    /\ Attributes
    /\ NoFiles
    /\ Unserved
    /\ p_nodes = <<>>
    /\ p_out = NoOutput
    /\ p_base = base_url

NextService == RunCrawlerTask \/ NextNews

SpecService == InitService /\ [][NextService]_vars

\* the WebParser functions applied to anchor lists
InitParser ==
    /\ target = "parser"
    /\ max_retries = 0 /\ max_pages = 0 /\ request_delay = 0
    /\ config_max_pages = 0
    /\ Constructed
    /\ Unserved
    /\ p_nodes \in ParserInputs
    /\ p_out = NoOutput
    /\ p_base \in ParserBases

NextParser == GetMaxPage \/ ExtractHref \/ FilterNavigationLinks \/ FoundAttachments

SpecParser == InitParser /\ [][NextParser]_vars

\* -------------------------------------------------------------- properties
NewsDone == target = "news" /\ pc = "done"
PersonnelDone == target = "personnel" /\ pc = "done"
PersonnelSucceeded == PersonnelDone /\ result.success

\* C1: with max_retries = N and every attempt failing with a transport error,
\* make_request makes exactly N+1 attempts and then returns None: it has
\* returned None exactly when N+1 attempts have failed, and no call makes more
\* than N+1 attempts.
C1_ExactlyNPlusOneAttempts ==
    /\ call.attempts <= max_retries + 1
    /\ call.failures <= call.attempts
    /\ (ret = "none") <=> (call.failures = max_retries + 1)
    /\ ret = "none" => call.attempts = max_retries + 1 /\ pc # "request"

C1_Witness ==
    pc = "returned" /\ ret = "none" /\ max_retries = MaxRetriesBound /\ call.failures = MaxRetriesBound + 1

\* C2: the news crawl fetches the listing pages 1..k in ascending order, k
\* being the first page that yields no article, or max_pages when there is
\* none; it fetches nothing after page k and reports total_pages = k.
FirstEmptyPage ==
    IF \E i \in 1..Len(listingLog) : listingLog[i].count = 0
    THEN CHOOSE i \in 1..Len(listingLog) :
            listingLog[i].count = 0 /\ \A j \in 1..(i - 1) : listingLog[j].count > 0
    ELSE max_pages

C2_PagesUpToFirstEmpty ==
    /\ \A i \in 1..Len(listingLog) : listingLog[i].page = i
    /\ \A i \in 1..(Len(listingLog) - 1) : listingLog[i].count > 0
    /\ NewsDone =>
          /\ Len(listingLog) = FirstEmptyPage
          /\ "total_pages" \in DOMAIN result
          /\ result.total_pages = FirstEmptyPage

\* C3: in a completed personnel run each distinct (title, URL) pair resolved
\* is counted exactly once and recorded under its title; in the scenario of
\* two categories, the first yielding three new URLs on page 1 and the same
\* three again on page 2, the second failing entirely, the result is
\* total_categories 2, total_documents 3, unique_pdf_links 3, success.
RECURSIVE UrlCount(_)
UrlCount(data) == IF data = <<>> THEN 0 ELSE Len(Head(data).urls) + UrlCount(Tail(data))

AllPagesFailed(entry) == entry.failed /\ \A i \in 1..Len(entry.pages) : entry.pages[i].failed

TwoCategoryScenario ==
    /\ Len(category_links) = 2
    /\ Len(catLog) = 2
    /\ Len(catLog[1].pages) = 2
    /\ ~catLog[1].pages[1].failed
    /\ catLog[1].pages[1].count = 3
    /\ Cardinality({p.url : p \in catLog[1].pages[1].pairs}) = 3
    /\ ~catLog[1].pages[2].failed
    /\ catLog[1].pages[2].pairs = catLog[1].pages[1].pairs
    /\ AllPagesFailed(catLog[2])

C3_TallyCountsNewPairs ==
    PersonnelSucceeded =>
        /\ result.total_documents = Cardinality(resolved)
        /\ result.total_documents = UrlCount(attachments_data)
        /\ \A p \in resolved : p.url \in Range(titleUrls(attachments_data, p.title))
        /\ TwoCategoryScenario =>
              result = [success |-> TRUE, total_categories |-> 2,
                        total_documents |-> 3, unique_pdf_links |-> 3]

C3_Witness == PersonnelSucceeded /\ TwoCategoryScenario

\* C4: the list of unique URLs handed to the sink for pdf_links.txt holds each
\* distinct resolved URL once, in lexicographic order, and unique_pdf_links is
\* its length.
ResolvedUrls == {p.url : p \in resolved}

C4_UniqueSortedLinks ==
    PersonnelSucceeded =>
        /\ pdf_links_file.written
        /\ Len(pdf_links_file.lines) = Cardinality(ResolvedUrls)
        /\ Range(pdf_links_file.lines) = ResolvedUrls
        /\ \A i, j \in 1..Len(pdf_links_file.lines) :
              i < j => LexLess(pdf_links_file.lines[i], pdf_links_file.lines[j])
        /\ result.unique_pdf_links = Len(pdf_links_file.lines)

C4_Witness ==
    /\ PersonnelSucceeded
    /\ Len(pdf_links_file.lines) >= 3
    /\ Cardinality(resolved) > Cardinality(ResolvedUrls)

\* C5: when the menu page fetch returns None, the next step of crawl() is its
\* return of success false with the menu error; no other request is made and
\* nothing is handed to the sink.
C5_MenuFailureIsTerminal ==
    [][(pc = "returned" /\ req.kind = "menu" /\ ret = "none") =>
          /\ pc' = "done"
          /\ result' = [success |-> FALSE, error |-> "menu page unavailable"]
          /\ \A r \in sent' : r.kind = "menu"
          /\ sink_calls' = 0
          /\ pdf_links_file' = NotWritten
          /\ personnel_data_file' = NotWritten]_vars

C5_Witness ==
    /\ PersonnelDone
    /\ req.kind = "menu"
    /\ ret = "none"
    /\ ~result.success
    /\ sink_calls = 0

C7_CategoryFailuresIsolated ==
    (target = "personnel" /\ category_links # <<>>) =>
        /\ pc # "raised"
        /\ pc # "done" => sink_calls = 0
        /\ pc = "done" =>
              /\ result.success
              /\ result.total_categories = Len(category_links)
              /\ Len(catLog) = Len(category_links)
              /\ sink_calls = 1

C7_Witness ==
    /\ PersonnelSucceeded
    /\ Len(catLog) = 2
    /\ catLog[1].failed
    /\ category_links[1].href = None
    /\ catLog[2].count > 0

\* C8, as stated: a category in which any step failed contributes zero
\* documents.
C8_FailedCategoryCountsZero ==
    \A i \in 1..Len(catLog) : catLog[i].failed => catLog[i].count = 0

\* C8, amended: a category whose first-page fetch failed contributes zero; a
\* page whose fetch failed contributes zero for that page only, and the
\* category contributes the sum of the tallies of its pages.
PageCounts(entry) == [i \in 1..Len(entry.pages) |-> entry.pages[i].count]

CategoryCounts == [i \in 1..Len(catLog) |-> catLog[i].count]

C8_FailedPageCountsZero ==
    /\ \A i \in 1..Len(catLog) :
          /\ catLog[i].count = SumSeq(PageCounts(catLog[i]))
          /\ \A j \in 1..Len(catLog[i].pages) :
                catLog[i].pages[j].failed => catLog[i].pages[j].count = 0
    /\ PersonnelSucceeded => result.total_documents = SumSeq(CategoryCounts)

C8_Witness ==
    \E i \in 1..Len(catLog) :
        /\ catLog[i].failed
        /\ catLog[i].count > 0
        /\ catLog[i].pages[Len(catLog[i].pages)].failed

\* C9: every HTTP request of a run, the AJAX attachment POST included, is
\* issued by make_request.
C9_SingleChokepoint == \A r \in sent : r.via = "make_request"

\* C10, as stated: whatever the outcome of an attempt, make_request returns a
\* Response or None and never raises.
C10_NeverRaises == ret # "raised"

\* C10, amended: make_request returns a Response after a successful attempt
\* and retries or returns None after a transport error; an error of any other
\* class raised by an attempt leaves make_request as an exception.
C10_RaisesOnlyOtherErrors ==
    /\ (ret = "raised") <=> (call.last = OtherError)
    /\ ret = "raised" => exc = OtherError
    /\ (ret = "response") <=> (call.last = "ok")
    /\ call.last = TransportError => ret \in {"pending", "none"}
    /\ pc = "returned" => ret \in {"response", "none", "raised"}

C10_Witness == pc = "returned" /\ ret = "raised" /\ call.attempts = MaxRetriesBound + 1

\* C11: every protocol failure of the AJAX resolver (no payload, malformed
\* payload, transport failure of the POST, a body that is not JSON, JSON
\* without the fragment key) ends fetch_ajax_attachments with an empty list
\* and without an exception: the step in which it returns moves the node loop
\* to the next node, and after a failure it leaves the page tally, the
\* AttachmentIndex and the global set as they were.
AjaxFailures == {"no_payload", "bad_payload", "transport", "error", "not_json", "no_key"}

AtAjaxNode == pc = "node" /\ ni <= Len(nodes) /\ nodes[ni].request = onAttachmentDetail

C11_AjaxFailuresDegrade ==
    [][/\ AtAjaxNode => pc' \in {"node", "ajax_post"}
       /\ pc = "ajax_post" => pc' = "node"
       /\ ((AtAjaxNode \/ pc = "ajax_post") /\ pc' = "node") =>
             /\ ni' = ni + 1
             /\ ajax_last'.why \in AjaxFailures =>
                   /\ ajax_last'.urls = <<>>
                   /\ page_count' = page_count
                   /\ attachments_data' = attachments_data
                   /\ pdf_links_set' = pdf_links_set]_vars

C11_Witness ==
    /\ pc = "node"
    /\ ajax_last.why = "no_key"
    /\ ni = 2
    /\ ni <= Len(nodes)
    /\ page_count = 0
    /\ \E r \in sent : r.kind = "ajax"

\* C12: the session of a crawler is closed at the end of its run on every
\* exit path: every run ends with the session closed, and the session is
\* never closed while crawl() is still running, so no request of the run is
\* made after the release.
Ended == pc \in {"done", "raised"}

C12_SessionReleasedAtEnd ==
    /\ [](session = "closed" => Ended)
    /\ [](Ended => <>(session = "closed"))
    /\ <>(session = "closed")

C12_Witness ==
    /\ session = "closed"
    /\ NewsDone
    /\ result.success
    /\ result.total_articles > 0
    /\ \E i \in 1..Len(listingLog) : listingLog[i].failed

\* C13: every crawl() call starts with an empty article list, and what a
\* finished call persisted is what that call fetched, also when it is the
\* second call on the same object: the article count of the JSON output is
\* the number of articles the listing pages of this call yielded.
ListingCounts == [i \in 1..Len(listingLog) |-> listingLog[i].count]

C13_NoStateSurvives ==
    /\ (target = "news" /\ pc = "listing" /\ npage = 0) => news_articles = <<>>
    /\ NewsDone =>
          /\ news_data_file.written
          /\ news_data_file.total_count = SumSeq(ListingCounts)
          /\ Len(news_texts_file.lines) = 4 * SumSeq(ListingCounts)

\* C14, as stated: every personnel run in which the menu page was fetched
\* returns success true, whatever the menu contains.
MenuFetched == req.kind # "menu" \/ ret = "response"

C14_OnlyMenuFailureAborts == (PersonnelDone /\ MenuFetched) => result.success

\* C14, amended: a personnel run returns success false exactly when it ends
\* before its first category: the menu fetch returned None, the menu fetch
\* raised, or the fetched menu gave no category link; nothing but the menu
\* was requested then and the sink was not called.  A run whose menu gave at
\* least one category link returns success true.
C14_AbortsBeforeFirstCategory ==
    PersonnelDone =>
        /\ result.success <=> category_links # <<>>
        /\ ~result.success =>
              /\ req.kind = "menu"
              /\ \A r \in sent : r.kind = "menu"
              /\ sink_calls = 0
              /\ ret = "none" <=> result.error = "menu page unavailable"
              /\ ret = "response" <=> result.error = "no category links"
              /\ ret = "raised" <=> result.error = OtherError

C14_Witness ==
    /\ PersonnelDone
    /\ req.kind = "menu"
    /\ ret = "response"
    /\ ~result.success
    /\ result.error = "no category links"

\* C15: get_max_page returns the largest page value over all anchors whose
\* href carries a page-number query parameter ("?page=N" or "&page=N"), in
\* whatever order the anchors stand, and 1 when no anchor carries one.
CarriesPageNumber(a) == Truthy(a.href) /\ searchPage(a.href) # None

PageValues == {int(searchPage(a.href)) : a \in {x \in Range(p_nodes) : CarriesPageNumber(x)}}

C15_MaxOverPageAnchors ==
    p_out.fn = "get_max_page" =>
        p_out.value = IF PageValues = {} THEN 1 ELSE Max(PageValues)

\* C16: extract_href returns a root-relative href prefixed with the base URL
\* and an absolute href unchanged; for the href "#" with an onclick that
\* embeds location.href='<target>' it returns <target>, without its quotes
\* and the delimiter after it, normalized by the same rule.
normalized(href, base) == IF startswith(href, sSlash) THEN base \o href ELSE href

Quotes == {39, 34}

\* what follows "location.href=" in the onclick
afterRedirect(onclick) == SubSeq(onclick, find(onclick, sLocationHref) + Len(sLocationHref), Len(onclick))

EmbedsRedirect(onclick) ==
    /\ onclick # None
    /\ find(onclick, sLocationHref) > 0
    /\ LET rest == afterRedirect(onclick)
       IN /\ rest # <<>>
          /\ Head(rest) \in Quotes
          /\ find(Tail(rest), <<Head(rest)>>) > 0

\* the text between the quote that follows "location.href=" and the next
\* quote of that kind
redirectTarget(onclick) ==
    LET rest == afterRedirect(onclick)
    IN SubSeq(Tail(rest), 1, find(Tail(rest), <<Head(rest)>>) - 1)

C16_HrefNormalized ==
    p_out.fn = "extract_href" =>
        \A i \in 1..Len(p_nodes) :
            LET node == p_nodes[i]
                href == p_out.value[i]
            IN /\ (Truthy(node.href) /\ startswith(node.href, sSlash)) =>
                      href = p_base \o node.href
               /\ (Truthy(node.href) /\ startswith(node.href, sHttp)) => href = node.href
               /\ (node.href = sHash /\ EmbedsRedirect(node.onclick)) =>
                      href = normalized(redirectTarget(node.onclick), p_base)

\* C17: filter_navigation_links keeps an element exactly when its trimmed
\* text is longer than 3 characters and is not a pagination glyph or label:
\* the result is the sub-list of the kept elements in their order, and no
\* element whose text is ">>", "2" or the next-page label is in it, whatever
\* its position.
Kept(node) == Len(strip(node.text)) > 3 /\ strip(node.text) \notin navigation_texts

PagerTexts == { <<187>>, <<50>>, <<19979, 19968, 38913>> }

C17_KeepsContentLinksInOrder ==
    p_out.fn = "filter_navigation_links" =>
        /\ p_out.value = SelectSeq(p_nodes, Kept)
        /\ \A i \in 1..Len(p_out.value) : strip(p_out.value[i].text) \notin PagerTexts

C17_Witness ==
    /\ p_out.fn = "filter_navigation_links"
    /\ Len(p_nodes) = 3
    /\ p_nodes[2].text \in PagerTexts
    /\ Len(p_out.value) = 2
    /\ p_out.value[1] # p_out.value[2]
    /\ p_out.value = <<p_nodes[1], p_nodes[3]>>

\* C18: in a make_request call the post-success sleep is slept once, and only
\* when the call returns a Response and the configured delay is positive; it
\* has been slept by the time the caller holds the Response; no failed
\* attempt and no call that returns None or raises sleeps it.
C18_DelayOnlyAfterSuccess ==
    /\ ret = "response" => call.post_sleeps = (IF request_delay > 0 THEN 1 ELSE 0)
    /\ ret # "response" => call.post_sleeps = 0
    /\ call.retry_sleeps <= call.failures

C18_Witness ==
    /\ pc = "returned"
    /\ ret = "response"
    /\ request_delay > 0
    /\ call.failures > 0
    /\ call.post_sleeps = 1

\* C19: after every record step of a personnel run no title's URL list holds
\* a URL twice, no title has two lists, and the global URL set is the union
\* of the per-title lists.
IndexedUrls == UNION {Range(attachments_data[i].urls) : i \in 1..Len(attachments_data)}

C19_IndexInvariant ==
    /\ \A i \in 1..Len(attachments_data) :
          Cardinality(Range(attachments_data[i].urls)) = Len(attachments_data[i].urls)
    /\ \A i, j \in 1..Len(attachments_data) :
          attachments_data[i].title = attachments_data[j].title => i = j
    /\ pdf_links_set = IndexedUrls

C19_Witness ==
    /\ pc = "node"
    /\ page_soup = PgDup
    /\ ni > 3
    /\ titleUrls(attachments_data, tDoc(1)) = <<base_url \o uFile(1)>>
    /\ titleUrls(attachments_data, tDoc(2)) = <<base_url \o uFile(1)>>
    /\ Cardinality(pdf_links_set) < UrlCount(attachments_data)

\* C20: the candidate nodes of a listing page are the matches of "tbody a"
\* when there is at least one, and then no match of "#rndbox_body a" is a
\* candidate even if the navigation filter removes every match of "tbody a";
\* they are the matches of "#rndbox_body a" only when "tbody a" matches
\* nothing.
C20_SelectorsNeverMerge ==
    (pc = "node" /\ page_soup # NoSoup) =>
        /\ page_soup.tbody # <<>> => nodes = SelectSeq(page_soup.tbody, Kept)
        /\ page_soup.tbody = <<>> => nodes = SelectSeq(page_soup.rndbox, Kept)

C20_Witness ==
    /\ pc = "page"
    /\ pageLog # <<>>
    /\ page_soup # NoSoup
    /\ page_soup.tbody # <<>>
    /\ SelectSeq(page_soup.rndbox, Kept) # <<>>
    /\ nodes = <<>>
    /\ ~pageLog[Len(pageLog)].failed
    /\ pageLog[Len(pageLog)].count = 0

\* C21: for every href the AJAX resolver emits from a fragment and every base
\* URL, the URL it emits is the URL extract_href returns for an anchor with
\* that href.
Emitted == SelectSeq(hrefs_of(SelectSeq(p_nodes, HasHref)), hasDocExtension)

C21_AjaxNormalizesLikeExtractHref ==
    p_out.fn = "found_attachments" =>
        /\ Len(p_out.value) = Len(Emitted)
        /\ \A i \in 1..Len(Emitted) :
              p_out.value[i] = extract_href(Anchor(EmptyStr, Emitted[i]), p_base)

\* C22: from a fragment the AJAX resolver returns, in document order, one URL
\* for each anchor whose href ends with a configured extension, whatever the
\* case of the href and of the configured extension, and none for any other
\* anchor.
EndsWithExtension(href) ==
    \E i \in 1..Len(doc_extensions) : endswith(lower(href), lower(doc_extensions[i]))

Matching == SelectSeq(hrefs_of(SelectSeq(p_nodes, HasHref)), EndsWithExtension)

C22_OneUrlPerDocumentAnchor ==
    p_out.fn = "found_attachments" =>
        /\ Len(p_out.value) = Len(Matching)
        /\ \A i \in 1..Len(Matching) : endswith(p_out.value[i], Matching[i])

\* C23: in a news run a record is appended to the article list exactly when
\* the article page was fetched, its content container has a paragraph and
\* the concatenated trimmed paragraph texts are not empty; the record has
\* url, title, content and timestamp; the list only grows, by that record at
\* its end; total_articles of the result is the number of records appended.
Qualifies(soup) ==
    /\ soup # NoSoup
    /\ soup.paras # <<>>
    /\ \E i \in 1..Len(soup.paras) : strip(soup.paras[i]) # EmptyStr

C23_AppendedIffContent ==
    [][/\ (pc = "returned" /\ req.kind = "article") =>
             /\ Qualifies(article_soup') <=> Len(news_articles') = Len(news_articles) + 1
             /\ ~Qualifies(article_soup') <=> news_articles' = news_articles
             /\ Qualifies(article_soup') => ret = "response"
       /\ \/ news_articles' = news_articles
          \/ /\ pc = "returned" /\ req.kind = "article"
             /\ SubSeq(news_articles', 1, Len(news_articles)) = news_articles
             /\ LET rec == news_articles'[Len(news_articles')]
                IN /\ DOMAIN rec = {"url", "title", "content", "timestamp"}
                   /\ rec.url = articles_data[ai].url
                   /\ rec.title = articles_data[ai].title
                   /\ rec.content # EmptyStr
       /\ (pc' = "done" /\ result'.success) => result'.total_articles = Len(news_articles')]_vars

C23_Witness ==
    /\ NewsDone
    /\ result.success
    /\ result.total_articles = 1
    /\ Len(news_articles) = 1
    /\ Cardinality({r \in sent : r.kind = "article"}) = 1
    /\ listingLog[1].count = 1
    /\ article_soup # NoSoup
    /\ ~Qualifies(article_soup)

\* C24: when attempt k of a make_request call is the first that succeeds, k
\* attempts were made, the call returns that response and the retry delay was
\* slept k-1 times, once after each failed attempt; when all N+1 attempts
\* fail it was slept N times, not after the last failed attempt.
C24_RetrySleepsBetweenAttempts ==
    /\ ret = "response" =>
          /\ call.attempts = call.failures + 1
          /\ call.retry_sleeps = call.attempts - 1
          /\ call.last = "ok"
    /\ ret = "none" =>
          /\ call.attempts = max_retries + 1
          /\ call.failures = max_retries + 1
          /\ call.retry_sleeps = max_retries
    /\ (pc = "request" /\ ret = "pending") =>
          /\ call.attempts = attempt
          /\ call.failures = attempt
          /\ call.retry_sleeps = attempt

C24_Witness ==
    /\ pc = "returned"
    /\ ret = "response"
    /\ max_retries = MaxRetriesBound
    /\ call.attempts = MaxRetriesBound + 1
    /\ call.retry_sleeps = MaxRetriesBound

\* C25: in every completed personnel run the total_documents written to
\* personnel_data.json is the total_documents of the returned result.
C25_PersistedTotalIsResultTotal ==
    PersonnelSucceeded =>
        /\ personnel_data_file.written
        /\ personnel_data_file.total_documents = result.total_documents

\* C26: whenever crawl() returned success false the sink was not called and
\* no file was written, and whenever it returned success true the sink was
\* called exactly once; for every max_pages, 0 included.
NothingPersisted ==
    /\ sink_calls = 0
    /\ pdf_links_file = NotWritten /\ personnel_data_file = NotWritten
    /\ news_texts_file = NotWritten /\ news_data_file = NotWritten

C26_SinkCalledIffSuccess ==
    pc = "done" =>
        /\ result.success => sink_calls = 1
        /\ ~result.success => NothingPersisted

\* C29: every URL in the AttachmentIndex and in the global URL set of a
\* personnel run is a resolved target: never the empty string and never the
\* placeholder "#".
C29_OnlyResolvedTargetsRecorded ==
    \A u \in pdf_links_set \cup IndexedUrls : u # EmptyStr /\ u # sHash /\ u # None

\* C28: crawl() of either orchestrator never raises to its caller; the value
\* it returns has a boolean success, with exactly the counts of its
\* orchestrator and no error when success is true, and with an error and no
\* counts when success is false.
PersonnelCounts == {"total_categories", "total_documents", "unique_pdf_links"}
NewsCounts == {"total_pages", "total_articles"}

C28_CrawlAlwaysReturnsResult ==
    /\ pc # "raised"
    /\ pc = "done" =>
          /\ result.success \in BOOLEAN
          /\ result.success =>
                DOMAIN result = {"success"} \cup
                    (IF target = "personnel" THEN PersonnelCounts ELSE NewsCounts)
          /\ ~result.success =>
                DOMAIN result = {"success", "error"}

C28_Witness ==
    /\ PersonnelDone
    /\ ret = "raised"
    /\ ~result.success
    /\ result.error = OtherError

\* C27: for a category whose listing fetches all succeed at their first
\* attempt, the GETs on the wire are the bare category URL and then
\* ?page=1, ?page=2, ... in this order, each once; when the page loop is over
\* they are max_page + 1, and max_page is assigned only when the first page
\* has come back, never while the pages are crawled.
PageUrl(i) == category_url \o sPageQuery \o str(i)

ListingGets(k) == <<category_url>> \o [i \in 1..k |-> PageUrl(i)]

LoopOver == pc \in {"category", "done"} \/ (pc = "page" /\ page > max_page)

C27_OneGetPerListingPage ==
    /\ [](  (cat_gets.clean /\ cat_gets.urls # <<>>) =>
              /\ cat_gets.urls = ListingGets(Len(cat_gets.urls) - 1)
              /\ pc = "page" => Len(cat_gets.urls) = page
              /\ LoopOver => Len(cat_gets.urls) = max_page + 1 )
    /\ [][ max_page' # max_page =>
              (pc = "returned" /\ req.kind = "category" /\ pc' = "page") ]_vars

C27_Witness ==
    /\ pc = "page"
    /\ page > max_page
    /\ max_page = 2
    /\ cat_gets.clean
    /\ Len(cat_gets.urls) = 3

\* C30: every crawl request that gave no pages argument ran with the
\* max_pages the service was configured with, whatever the requests served
\* before it asked for.
C30_OverrideIsPerRequest ==
    \A i \in 1..Len(requests) :
        ~requests[i].pages.given => requests[i].max_pages = configured_max_pages

====
